---- MODULE Spec2Model ----
(***************************************************************************)
(* Model of the core of m2m (src/final.py): the mode table MODE_MAP, the   *)
(* tonic inference infer_tonic_name and the in-place modal transformation  *)
(* convert_to_mode, called on one shared PrettyMIDI note collection.       *)
(*                                                                         *)
(* A note collection is a sequence of instruments, each a sequence of      *)
(* note pitches (pm.instruments[g].notes[k].pitch).  Python integers are   *)
(* unbounded, so pitches are plain integers.                               *)
(*                                                                         *)
(* Spec      whole calls of infer_tonic_name and convert_to_mode, the      *)
(*           latter with the tonic the caller holds, as main() and the     *)
(*           web handlers pass it                                          *)
(* SpecInfer infer_tonic_name alone, on larger collections                 *)
(* SpecLoop  convert_to_mode one note at a time, in any order              *)
(***************************************************************************)
EXTENDS Integers, Sequences, FiniteSets

VARIABLES pm,        \* the note collection being worked on
          tonic_pc,  \* the caller's tonic pitch class for this collection
          before,    \* the collection as it was when the last call began
          last,      \* the last call: operation, arguments, outcome, result
          mode_map,  \* the process-wide mode registry (MODE_MAP)
          ncalls,    \* number of calls made on this collection
          todo       \* note positions the running convert loop has yet to visit

vars == <<pm, tonic_pc, before, last, mode_map, ncalls, todo>>

----------------------------------------------------------------------------
(* Bounds of the model *)

MaxInst == 2       \* instruments in a loaded collection
MaxNotes == 3      \* notes, over all instruments, of a collection to infer from
MaxConvNotes == 2  \* notes, over all instruments, of a collection to convert
MaxCalls == 2      \* calls made on one loaded collection

\* Pitches of the notes of a collection to infer from: both ends of the MIDI
\* range, two octaves of C, and a sharp (D#4).
PitchSamples == {0, 60, 63, 127}

\* Pitches of the notes of a collection to convert: both ends of the MIDI
\* range.  Over the twelve tonics each of them takes every degree.
EdgePitches == {0, 127}

Tonics == 0..11

\* Mode identifiers a caller may pass: the registered ones and one that is not.
ModeIds == {"ionian", "aeolian", "harmonic_minor", "dorian", "phrygian",
            "lydian", "mixolydian", "locrian", "major", "dummy"}

----------------------------------------------------------------------------
(* The mode table, src/final.py:35-45 *)

\* The table with degree 4 both lowered and raised by aeolian
MODE_MAP_Overlap ==
    [ionian         |-> [lower |-> {},               raise |-> {}],
     aeolian        |-> [lower |-> {4, 9, 11},       raise |-> {4}],
     harmonic_minor |-> [lower |-> {4, 9},           raise |-> {}],
     dorian         |-> [lower |-> {4, 11},          raise |-> {}],
     phrygian       |-> [lower |-> {2, 4, 9, 11},    raise |-> {}],
     lydian         |-> [lower |-> {},               raise |-> {5}],
     mixolydian     |-> [lower |-> {11},             raise |-> {}],
     locrian        |-> [lower |-> {2, 4, 7, 9, 11}, raise |-> {}],
     major          |-> [lower |-> {},               raise |-> {3, 8, 10}]]

\* The table with aeolian's entry replaced: 3 next to 4 in its lower set
MODE_MAP_Adjacent ==
    [MODE_MAP_Overlap EXCEPT !.aeolian = [lower |-> {3, 4, 9, 11}, raise |-> {}]]

\* The table with aeolian's entry replaced: the lowered seventh is missing
MODE_MAP_Aeolian ==
    [MODE_MAP_Overlap EXCEPT !.aeolian = [lower |-> {4, 9}, raise |-> {}]]

MODE_MAP ==
    [ionian         |-> [lower |-> {},               raise |-> {}],
     aeolian        |-> [lower |-> {4, 9, 11},       raise |-> {}],
     harmonic_minor |-> [lower |-> {4, 9},           raise |-> {}],
     dorian         |-> [lower |-> {4, 11},          raise |-> {}],
     phrygian       |-> [lower |-> {2, 4, 9, 11},    raise |-> {}],
     lydian         |-> [lower |-> {},               raise |-> {5}],
     mixolydian     |-> [lower |-> {11},             raise |-> {}],
     locrian        |-> [lower |-> {2, 4, 7, 9, 11}, raise |-> {}],
     major          |-> [lower |-> {},               raise |-> {3, 8, 10}]]

\* MODE_MAP.get(mode): the entry, or None when the key is missing.
None == [none |-> TRUE]

LookupDefault(map, mode) ==
    IF mode \in DOMAIN map THEN map[mode] ELSE map["aeolian"]

Lookup(map, mode) ==
    IF mode \in DOMAIN map THEN map[mode] ELSE None

----------------------------------------------------------------------------
(* convert_to_mode, src/final.py:48-62 *)

\* Python's %: the result has the sign of the (positive) divisor.
PyMod(a, b) == a % b

\* A remainder that truncates toward zero, as C's % does.
TruncMod(a, b) == IF a >= 0 THEN a % b ELSE 0 - ((0 - a) % b)

\* pc = (note.pitch - tonic_pc) % 12
DegreeTrunc(pitch, tonic) == TruncMod(pitch - tonic, 12)

Degree(pitch, tonic) == PyMod(pitch - tonic, 12)

\* The body of the inner loop for one note: the note's pitch afterwards.
NewPitchClamped(pitch, tonic, info) ==
    LET pc == Degree(pitch, tonic)
        np == IF pc \in info.lower THEN pitch - 1
              ELSE IF pc \in info.raise THEN pitch + 1
              ELSE pitch
    IN  IF np < 0 THEN 0 ELSE IF np > 127 THEN 127 ELSE np

NewPitchInverted(pitch, tonic, info) ==
    LET pc == Degree(pitch, tonic)
    IN  IF pc \in info.lower THEN pitch - 1
        ELSE IF pc \notin info.raise THEN pitch + 1
        ELSE pitch

NewPitch(pitch, tonic, info) ==
    LET pc == Degree(pitch, tonic)
    IN  IF pc \in info.lower THEN pitch - 1
        ELSE IF pc \in info.raise THEN pitch + 1
        ELSE pitch

\* One iteration of the inner loop, on note k of instrument g.
VisitNoteCoupled(notes, g, k, tonic, info) ==
    [notes EXCEPT ![g][k] =
        @ + (NewPitch(notes[g][1], tonic, info) - notes[g][1])]

VisitNote(notes, g, k, tonic, info) ==
    [notes EXCEPT ![g][k] = NewPitch(@, tonic, info)]

\* The two nested loops, from note k of instrument g onwards, in list order.
RECURSIVE Loop(_, _, _, _, _)
Loop(notes, g, k, tonic, info) ==
    IF g > Len(notes) THEN notes
    ELSE IF k > Len(notes[g]) THEN Loop(notes, g + 1, 1, tonic, info)
    ELSE Loop(VisitNote(notes, g, k, tonic, info), g, k + 1, tonic, info)

\* return mode.replace('_', ' ')
Label(mode) == IF mode = "harmonic_minor" THEN "harmonic minor" ELSE mode

\* Every (instrument, note) index pair the loops visit.
Positions(notes) ==
    UNION {{<<g, k>> : k \in 1..Len(notes[g])} : g \in 1..Len(notes)}

----------------------------------------------------------------------------
(* infer_tonic_name, src/final.py:65-73, and the callers' reduction of the *)
(* name to a pitch class, src/final.py:193                                 *)

\* pitches = [note.pitch for inst in pm.instruments for note in inst.notes]
RECURSIVE Concat(_, _)
Concat(notes, g) ==
    IF g > Len(notes) THEN <<>> ELSE notes[g] \o Concat(notes, g + 1)

AllPitches(notes) == Concat(notes, 1)

\* if not pitches
IsEmptyNever(pitches) == FALSE

IsEmpty(pitches) == Len(pitches) = 0

\* pcs = [p % 12 for p in pitches]
PitchClasses(pitches) == [i \in DOMAIN pitches |-> PyMod(pitches[i], 12)]

Count(seq, x) == Cardinality({i \in DOMAIN seq : seq[i] = x})

FirstIndex(seq, x) ==
    CHOOSE i \in DOMAIN seq :
        seq[i] = x /\ \A j \in DOMAIN seq : seq[j] = x => i <= j

\* Counter(pcs).most_common(1)[0][0]: a Counter keeps its keys in order of
\* first occurrence and most_common(1) is max() over the items by count, so
\* among equally frequent pitch classes the first one seen wins.
MostCommonLeast(pcs) ==
    CHOOSE x \in {pcs[i] : i \in DOMAIN pcs} :
        \A y \in {pcs[i] : i \in DOMAIN pcs} :
            \/ Count(pcs, x) < Count(pcs, y)
            \/ Count(pcs, x) = Count(pcs, y)
                 /\ FirstIndex(pcs, x) <= FirstIndex(pcs, y)

MostCommon(pcs) ==
    CHOOSE x \in {pcs[i] : i \in DOMAIN pcs} :
        \A y \in {pcs[i] : i \in DOMAIN pcs} :
            \/ Count(pcs, x) > Count(pcs, y)
            \/ Count(pcs, x) = Count(pcs, y)
                 /\ FirstIndex(pcs, x) <= FirstIndex(pcs, y)

\* sorted(...): insertion of each element into an ascending list.
RECURSIVE Insert(_, _)
Insert(x, seq) ==
    IF seq = <<>> THEN <<x>>
    ELSE IF x <= Head(seq) THEN <<x>> \o seq
    ELSE <<Head(seq)>> \o Insert(x, Tail(seq))

RECURSIVE Sorted(_)
Sorted(seq) ==
    IF seq = <<>> THEN <<>> ELSE Insert(Head(seq), Sorted(Tail(seq)))

\* same_pc = sorted(p for p in pitches if p % 12 == tonic_pc)
SamePc(pitches, tonic) ==
    LET Keep(p) == PyMod(p, 12) = tonic
    IN  Sorted(SelectSeq(pitches, Keep))

\* median_pitch = same_pc[len(same_pc) // 2]   (Python indexes from 0)
MedianPitch(pitches) ==
    LET same_pc == SamePc(pitches, MostCommon(PitchClasses(pitches)))
    IN  same_pc[(Len(same_pc) \div 2) + 1]

\* pretty_midi.note_number_to_name: semis[n % 12] + str(n // 12 - 1).
\* A name is the triple <<letter, accidental, octave>>.
SEMIS == << <<"C", "">>, <<"C", "#">>, <<"D", "">>, <<"D", "#">>,
            <<"E", "">>, <<"F", "">>, <<"F", "#">>, <<"G", "">>,
            <<"G", "#">>, <<"A", "">>, <<"A", "#">>, <<"B", "">> >>

NoteNumberToName(n) ==
    LET semi == SEMIS[PyMod(n, 12) + 1]
    IN  <<semi[1], semi[2], (n \div 12) - 1>>

\* pretty_midi.note_name_to_number:
\* 12 * (octave + 1) + pitch_map[letter] + acc_map[accidental]
PITCH_MAP == [C |-> 0, D |-> 2, E |-> 4, F |-> 5, G |-> 7, A |-> 9, B |-> 11]

AccOffset(acc) == IF acc = "#" THEN 1 ELSE IF acc = "b" THEN 0 - 1 ELSE 0

NoteNameToNumber(name) ==
    12 * (name[3] + 1) + PITCH_MAP[name[1]] + AccOffset(name[2])

\* tonic_pc = pretty_midi.note_name_to_number(tonic_name) % 12
TonicPc(name) == PyMod(NoteNameToNumber(name), 12)

----------------------------------------------------------------------------
(* The state machine *)

\* Note lists of at most n notes with pitches in P.
NoteLists(P, n) == UNION {[1..k -> P] : k \in 0..n}

\* Collections of exactly g instruments and at most n notes in all.
RECURSIVE CollectionsOf(_, _, _)
CollectionsOf(P, g, n) ==
    IF g = 0 THEN {<<>>}
    ELSE UNION {{<<first>> \o rest : rest \in CollectionsOf(P, g - 1, n - Len(first))} :
                first \in NoteLists(P, n)}

Collections(P, n) == UNION {CollectionsOf(P, g, n) : g \in 0..MaxInst}

NoCall ==
    [op |-> "none", tonic |-> -1, mode |-> "", outcome |-> "none",
     name |-> <<>>, pc |-> -1, label |-> "", prevMode |-> ""]

\* The worked example of the inverse pair: degrees 0, 3, 8, 10 above C4,
\* and what "major" with tonic 0 makes of it.
Example == << <<60, 63>>, <<68, 70>> >>

ExampleMajor == << <<60, 64>>, <<69, 71>> >>

\* A collection handed to the core, with the tonic the caller will pass.
Init ==
    /\ pm \in Collections(EdgePitches, MaxConvNotes) \cup {Example}
    /\ tonic_pc \in Tonics
    /\ before = pm
    /\ last = NoCall
    /\ mode_map = MODE_MAP
    /\ ncalls = 0
    /\ todo = {}

\* A collection handed to the core before any tonic is known.
InitInfer ==
    /\ pm \in Collections(PitchSamples, MaxNotes)
    /\ tonic_pc = -1
    /\ before = pm
    /\ last = NoCall
    /\ mode_map = MODE_MAP
    /\ ncalls = 0
    /\ todo = {}

\* The mode of the call before this one, when that call was a completed
\* convert_to_mode with the same tonic_pc; "" otherwise.
PrevMode(tonic) ==
    IF last.op = "convert" /\ last.outcome = "ok" /\ last.tonic = tonic
    THEN last.mode ELSE ""

\* tonic_name = infer_tonic_name(pm); tonic_pc = note_name_to_number(...) % 12
InferTonic ==
    /\ ncalls < MaxCalls
    /\ todo = {}
    /\ last.outcome # "running"
    /\ LET pitches == AllPitches(pm)
       IN  IF IsEmpty(pitches)
           THEN last' = [NoCall EXCEPT !.op = "infer", !.outcome = "EmptyInput"]
           \* most_common(1) of an empty Counter is [], whose [0] raises
           ELSE IF Len(PitchClasses(pitches)) = 0
           THEN last' = [NoCall EXCEPT !.op = "infer", !.outcome = "IndexError"]
           ELSE LET name == NoteNumberToName(MedianPitch(pitches))
                IN  last' = [NoCall EXCEPT !.op = "infer", !.outcome = "ok",
                                           !.name = name, !.pc = TonicPc(name)]
    /\ tonic_pc' = IF last'.outcome = "ok" THEN last'.pc ELSE tonic_pc
    /\ before' = pm
    /\ ncalls' = ncalls + 1
    /\ UNCHANGED <<pm, mode_map, todo>>

\* convert_to_mode(pm, tonic_pc, mode), the whole call.
ConvertToMode(tonic, mode) ==
    /\ ncalls < MaxCalls
    /\ todo = {}
    /\ last.outcome # "running"
    /\ LET info == Lookup(mode_map, mode)
           call == [NoCall EXCEPT !.op = "convert", !.tonic = tonic,
                                  !.mode = mode,
                                  !.prevMode = PrevMode(tonic)]
       IN  IF info = None
           THEN /\ last' = [call EXCEPT !.outcome = "UnsupportedMode"]
                /\ pm' = pm
           ELSE /\ last' = [call EXCEPT !.outcome = "ok", !.label = Label(mode)]
                /\ pm' = Loop(pm, 1, 1, tonic, info)
    /\ before' = pm
    /\ ncalls' = ncalls + 1
    /\ UNCHANGED <<tonic_pc, mode_map, todo>>

\* The callers pass the tonic they hold: convert_to_mode(pm, tonic_pc, mode).
Convert == \E mode \in ModeIds : ConvertToMode(tonic_pc, mode)

Next == InferTonic \/ Convert

Spec == Init /\ [][Next]_vars

\* Inference alone, on the larger collections.
NextInfer == InferTonic

SpecInfer == InitInfer /\ [][NextInfer]_vars

----------------------------------------------------------------------------
(* convert_to_mode one note at a time.  The code visits the notes in list  *)
(* order; here the next note is any note not yet visited, which covers the *)
(* code's order and every other one.                                       *)

\* Lines 50-54: the lookup, the error exit, and entry into the loops.
BeginConvert(tonic, mode) ==
    /\ ncalls < MaxCalls
    /\ todo = {}
    /\ last.outcome # "running"
    /\ LET info == Lookup(mode_map, mode)
           call == [NoCall EXCEPT !.op = "convert", !.tonic = tonic,
                                  !.mode = mode,
                                  !.prevMode = PrevMode(tonic)]
       IN  IF info = None
           THEN /\ last' = [call EXCEPT !.outcome = "UnsupportedMode"]
                /\ todo' = {}
           ELSE /\ last' = [call EXCEPT !.outcome = "running"]
                /\ todo' = Positions(pm)
    /\ before' = pm
    /\ ncalls' = ncalls + 1
    /\ UNCHANGED <<pm, tonic_pc, mode_map>>

Begin == \E mode \in ModeIds : BeginConvert(tonic_pc, mode)

\* Lines 57-61 for one note.
Visit ==
    /\ last.outcome = "running"
    /\ \E pos \in todo :
          /\ pm' = VisitNote(pm, pos[1], pos[2], last.tonic,
                             Lookup(mode_map, last.mode))
          /\ todo' = todo \ {pos}
    /\ UNCHANGED <<tonic_pc, before, last, mode_map, ncalls>>

\* Line 62: the loops are over, the label is returned.
EndConvert ==
    /\ last.outcome = "running"
    /\ todo = {}
    /\ last' = [last EXCEPT !.outcome = "ok", !.label = Label(last.mode)]
    /\ UNCHANGED <<pm, tonic_pc, before, mode_map, ncalls, todo>>

NextLoop == Begin \/ Visit \/ EndConvert

SpecLoop == Init /\ [][NextLoop]_vars

----------------------------------------------------------------------------
(* Properties *)

Done(op) == last.op = op /\ last.outcome # "running" /\ last.outcome # "none"

ConvertedOk == last.op = "convert" /\ last.outcome = "ok"

SameShape(a, b) ==
    /\ Len(a) = Len(b)
    /\ \A g \in 1..Len(a) : Len(a[g]) = Len(b[g])

PitchAt(notes, pos) == notes[pos[1]][pos[2]]

\* C1: after convert_to_mode with a registered mode, every note of every
\* instrument is one lower than before when its degree (old pitch - tonic)
\* mod 12 is in the mode's lower set, one higher when the degree is not in
\* lower but in raise, and unchanged otherwise; no pitch moves by more than one.
C1_PitchRule ==
    ConvertedOk =>
        /\ SameShape(pm, before)
        /\ \A pos \in Positions(before) :
              LET old == PitchAt(before, pos)
                  new == PitchAt(pm, pos)
                  degree == (old - last.tonic) % 12
                  def == MODE_MAP[last.mode]
              IN  /\ degree \in 0..11
                  /\ degree \in def.lower => new = old - 1
                  /\ (degree \notin def.lower /\ degree \in def.raise)
                        => new = old + 1
                  /\ (degree \notin def.lower /\ degree \notin def.raise)
                        => new = old
                  /\ new - old \in {-1, 0, 1}

\* A conversion that lowered one note and left another one alone.
C1_Witness ==
    /\ ConvertedOk
    /\ \E p, q \in Positions(before) :
          /\ PitchAt(pm, p) = PitchAt(before, p) - 1
          /\ PitchAt(pm, q) = PitchAt(before, q)

\* C2: convert_to_mode with a mode identifier that is not a key of the
\* registry ends in the unsupported-mode error and changes no pitch.
C2_UnsupportedMode ==
    (Done("convert") /\ last.mode \notin DOMAIN MODE_MAP) =>
        /\ last.outcome = "UnsupportedMode"
        /\ pm = before

\* "dummy" was refused on a collection that has notes.
C2_Witness ==
    /\ last.op = "convert"
    /\ last.mode = "dummy"
    /\ last.outcome = "UnsupportedMode"
    /\ Positions(pm) # {}

\* C3: tonic inference on a collection without notes (no instruments, or
\* instruments that are all empty) ends in the empty-input error, yields no
\* tonic and changes no note.
C3_EmptyInput ==
    (Done("infer") /\ Positions(before) = {}) =>
        /\ last.outcome = "EmptyInput"
        /\ last.name = <<>>
        /\ last.pc = -1
        /\ pm = before

\* Inference was refused on a collection of two empty instruments.
C3_Witness ==
    /\ last.op = "infer"
    /\ last.outcome = "EmptyInput"
    /\ Len(before) = 2
    /\ Positions(before) = {}

CountPc(notes, k) ==
    Cardinality({pos \in Positions(notes) : PitchAt(notes, pos) % 12 = k})

StrictlyMost(notes, k) ==
    \A j \in (0..11) \ {k} : CountPc(notes, k) > CountPc(notes, j)

\* C4: when pitch class k occurs strictly more often than every other pitch
\* class, the tonic pitch class the callers obtain from inference is k.
C4_StrictPlurality ==
    Done("infer") =>
        \A k \in 0..11 :
            StrictlyMost(before, k) =>
                /\ last.outcome = "ok"
                /\ last.pc = k
                /\ tonic_pc = k

\* Inference on two instruments whose winning pitch class comes in two
\* octaves, with a note of another pitch class present.
C4_Witness ==
    /\ last.op = "infer"
    /\ last.outcome = "ok"
    /\ Len(before) = 2
    /\ before[1] # <<>> /\ before[2] # <<>>
    /\ StrictlyMost(before, last.pc)
    /\ \E p, q, r \in Positions(before) :
          /\ PitchAt(before, p) % 12 = last.pc
          /\ PitchAt(before, q) % 12 = last.pc
          /\ PitchAt(before, p) # PitchAt(before, q)
          /\ PitchAt(before, r) % 12 # last.pc

\* C5 as stated: there are a registered mode, a tonic and a pitch for which
\* a second convert_to_mode call with the same arguments moves the pitch again.
C5_SecondCallMoves ==
    \E mode \in DOMAIN mode_map, tonic \in Tonics, pitch \in 0..127 :
        LET once == Loop(<< <<pitch>> >>, 1, 1, tonic, mode_map[mode])
        IN  Loop(once, 1, 1, tonic, mode_map[mode]) # once

\* C5 amended: a convert_to_mode call that directly follows a completed call
\* with the same tonic and the same registered mode changes no pitch.
C5_SecondCallIdle ==
    (ConvertedOk /\ last.prevMode = last.mode) => pm = before

\* The same mode was applied twice in a row and a note stands one below the
\* MIDI range, where only the first of the two calls can have put it.
C5_Witness ==
    /\ ConvertedOk
    /\ last.prevMode = last.mode
    /\ ncalls = 2
    /\ \E pos \in Positions(pm) : PitchAt(pm, pos) = -1

DegreesIn(notes, tonic, degrees) ==
    \A pos \in Positions(notes) : (PitchAt(notes, pos) - tonic) % 12 \in degrees

\* C6: on a collection whose degrees are all in {0, 3, 8, 10}, "major"
\* followed by "aeolian" with the same tonic gives back the original pitches
\* (60, 63, 68, 70 becomes 60, 64, 69, 71 and then 60, 63, 68, 70 again).
C6_MajorThenAeolian ==
    [][ ( /\ ConvertedOk
          /\ last.mode = "major"
          /\ DegreesIn(before, last.tonic, {0, 3, 8, 10})
          /\ last'.op = "convert"
          /\ last'.mode = "aeolian"
          /\ last'.tonic = last.tonic )
        => /\ last'.outcome = "ok"
           /\ pm' = before
           /\ (before = Example /\ last.tonic = 0) => pm = ExampleMajor ]_vars

\* "aeolian" has just undone "major" on the worked example.
C6_Witness ==
    /\ ConvertedOk
    /\ last.mode = "aeolian"
    /\ last.prevMode = "major"
    /\ last.tonic = 0
    /\ before = ExampleMajor
    /\ pm = Example

\* A note converted on its own, as a collection of one note.
Alone(pitch, tonic, mode) ==
    Loop(<< <<pitch>> >>, 1, 1, tonic, mode_map[mode])[1][1]

\* C7: whatever the order in which the notes are visited, each note ends at
\* the pitch it gets when converted alone; while the loop runs, the notes
\* visited so far are at that pitch and the others are untouched.
C7_Pointwise ==
    (last.op = "convert" /\ last.outcome \in {"running", "ok"}) =>
        /\ SameShape(pm, before)
        /\ \A pos \in Positions(before) :
              PitchAt(pm, pos) =
                 IF pos \in todo THEN PitchAt(before, pos)
                 ELSE Alone(PitchAt(before, pos), last.tonic, last.mode)
        /\ last.outcome = "ok" =>
              pm = Loop(before, 1, 1, last.tonic, mode_map[last.mode])

\* A conversion of several notes is over; it moved one note and not another.
C7_Witness ==
    /\ ConvertedOk
    /\ \E p, q \in Positions(before) :
          /\ p[1] = q[1]
          /\ PitchAt(pm, p) # PitchAt(before, p)
          /\ PitchAt(pm, q) = PitchAt(before, q)

\* C8: convert_to_mode with mode "ionian" leaves every pitch unchanged.
C8_IonianIdentity ==
    (Done("convert") /\ last.mode = "ionian") =>
        /\ last.outcome = "ok"
        /\ pm = before

\* "ionian" was applied to a collection of two instruments with notes.
C8_Witness ==
    /\ ConvertedOk
    /\ last.mode = "ionian"
    /\ Len(pm) = 2
    /\ pm[1] # <<>> /\ pm[2] # <<>>

\* C9: in every state the lower and raise sets of every registered mode are
\* disjoint subsets of 0..11, and the registry is the one built at startup.
C9_Registry ==
    /\ mode_map = MODE_MAP
    /\ DOMAIN mode_map = ModeIds \ {"dummy"}
    /\ \A mode \in DOMAIN mode_map :
          /\ mode_map[mode].lower \cap mode_map[mode].raise = {}
          /\ mode_map[mode].lower \subseteq 0..11
          /\ mode_map[mode].raise \subseteq 0..11

\* An inference that followed a conversion which had moved a note.
C9_Witness ==
    /\ Done("infer")
    /\ ncalls = 2
    /\ \E pos \in Positions(pm) : PitchAt(pm, pos) \notin EdgePitches \cup 60..70

\* C10: convert_to_mode neither clamps nor fails at the ends of the MIDI
\* range: a note at 0 with a lowered degree ends at -1, a note at 127 with a
\* raised degree ends at 128.
C10_NoClamp ==
    (Done("convert") /\ last.mode \in DOMAIN MODE_MAP) =>
        /\ last.outcome = "ok"
        /\ \A pos \in Positions(before) :
              LET old == PitchAt(before, pos)
                  degree == (old - last.tonic) % 12
                  def == MODE_MAP[last.mode]
              IN  /\ (old = 0 /\ degree \in def.lower) => PitchAt(pm, pos) = -1
                  /\ (old = 127 /\ degree \notin def.lower /\ degree \in def.raise)
                        => PitchAt(pm, pos) = 128

\* The first call on a loaded collection pushed a note from 127 to 128.
C10_Witness ==
    /\ ConvertedOk
    /\ ncalls = 1
    /\ \A pos \in Positions(before) : PitchAt(before, pos) \in 0..127
    /\ \E pos \in Positions(before) :
          PitchAt(before, pos) = 127 /\ PitchAt(pm, pos) = 128

\* The first call on a loaded collection pushed a note from 0 to -1.
C10_WitnessLow ==
    /\ ConvertedOk
    /\ ncalls = 1
    /\ \E pos \in Positions(before) :
          PitchAt(before, pos) = 0 /\ PitchAt(pm, pos) = -1

====
